---- MODULE Spec2Model ----
(***************************************************************************)
(* Marnie's Maintenance Manager: the per-file access decision of           *)
(* jobs/permissions.py (private_media_permissions and its helpers), run    *)
(* against a job table that the workflow writes.                           *)
(*                                                                         *)
(* Strings are modelled by what the code inspects of them:                 *)
(*   - a path segment is a sequence of chunks, "abc.pdf" = <<"abc",".pdf">>*)
(*     so that str.endswith looks at the last chunk;                       *)
(*   - a raw path string is the sequence of its "/"-separated segments,    *)
(*     "quotes//abc.pdf" = << <<"quotes">>, <<>>, <<"abc",".pdf">> >>,     *)
(*     a leading "/" gives an empty first segment.                         *)
(* pathlib.Path(raw) is computed from that: empty and "." segments are     *)
(* dropped, ".." is kept, an absolute path gets the root as first part.    *)
(***************************************************************************)
EXTENDS Naturals, Sequences, FiniteSets

VARIABLES jobs, chk, procs, resp, users

vars == <<jobs, chk, procs, resp, users>>

\* ------------------------------------------------------------------ bounds

\* rows of the Job table
MaxJobs == 2

\* documents stored over the whole Job table
MaxFiles == 2

\* ------------------------------------------------------- strings and paths

TRAVERSE == <<"..">>

CURDIR == <<".">>

EMPTY == <<>>

ROOT == <<"/">>

PDF == ".pdf"

TXT == ".txt"

quotes_dirname == <<"quotes">>

deposit_proofs_dirname == <<"deposit_pops">>

invoices_dirname == <<"invoices">>

final_payment_proofs_dirname == <<"final_payment_pops">>

completion_photos_dirname == <<"completion_photos">>

\* str.endswith(suffix) on a chunked segment
endswith(s, suffix) == Len(s) > 0 /\ s[Len(s)] = suffix

\* the raw string starts with "/"
StartsWithSlash(raw) == Len(raw) >= 2 /\ raw[1] = EMPTY

\* pathlib.Path(raw).parts
Path(raw) ==
    (IF StartsWithSlash(raw) THEN <<ROOT>> ELSE <<>>)
        \o SelectSeq(raw, LAMBDA s : s # EMPTY /\ s # CURDIR)

\* Path.is_absolute()
is_absolute(path) == Len(path) > 0 /\ path[1] = ROOT

\* TRAVERSE in path.parts
has_traverse(path) == \E i \in DOMAIN path : path[i] = TRAVERSE

\* str(path) of a relative path, as the ORM passes it to the query
PathStr(path) == IF path = <<>> THEN <<CURDIR>> ELSE path

\* ------------------------------------------------------------------- users

UserIds == {"bob", "peter"}

AnonymousUser ==
    [id |-> "anonymous", is_authenticated |-> FALSE, is_superuser |-> FALSE,
     is_marnie |-> FALSE, is_agent |-> FALSE]

\* request.user: the anonymous user, or a User row with any role flags
RequestUsers ==
    {AnonymousUser} \cup
    [id : UserIds, is_authenticated : {TRUE}, is_superuser : BOOLEAN,
     is_marnie : BOOLEAN, is_agent : BOOLEAN]

\* -------------------------------------------------------------------- jobs

FieldNames == {"quote", "deposit_proof_of_payment", "invoice", "final_payment_pop"}

NoFile == <<>>

abc_pdf == <<"abc", PDF>>

abc_txt == <<"abc", TXT>>

\* the directory a field's uploads are stored under
UploadTo(field_name) ==
    CASE field_name = "quote" -> quotes_dirname
      [] field_name = "deposit_proof_of_payment" -> deposit_proofs_dirname
      [] field_name = "invoice" -> invoices_dirname
      [] field_name = "final_payment_pop" -> final_payment_proofs_dirname

\* the file names an upload may carry
UploadNames(field_name) ==
    IF field_name = "quote" THEN {abc_pdf, abc_txt} ELSE {abc_pdf}

\* The names a file field may hold: the uploads under the field's directory;
\* no constraint ties a stored name to its field, so a quote field may also
\* hold a name under invoices/.
StoredNames(field_name) ==
    {<<UploadTo(field_name), n>> : n \in UploadNames(field_name)}
    \cup (IF field_name = "quote" THEN {<<invoices_dirname, abc_pdf>>} ELSE {})

\* Job.Status
PENDING_INSPECTION == "pending_inspection"

INSPECTION_COMPLETED == "inspection_completed"

None == "None"

NewJob(agent) ==
    [agent |-> agent, quote |-> NoFile, deposit_proof_of_payment |-> NoFile,
     invoice |-> NoFile, final_payment_pop |-> NoFile,
     status |-> PENDING_INSPECTION, date_of_inspection |-> None,
     quote_content |-> None]

TotalFiles(db) ==
    Cardinality({<<i, f>> \in (DOMAIN db) \X FieldNames : db[i][f] # NoFile})

\* a lookup that settles for the first of several matching rows
Job_objects_get_first(db, field_name, path) ==
    LET found == {i \in DOMAIN db : db[i][field_name] = PathStr(path)}
    IN  IF found = {} THEN [exc |-> "DoesNotExist"]
        ELSE [exc |-> "None",
              job |-> db[CHOOSE i \in found : \A k \in found : i <= k]]

\* Job.objects.get(**{field_name: path})
Job_objects_get(db, field_name, path) ==
    LET found == {i \in DOMAIN db : db[i][field_name] = PathStr(path)}
    IN  IF found = {} THEN [exc |-> "DoesNotExist"]
        ELSE IF Cardinality(found) > 1 THEN [exc |-> "MultipleObjectsReturned"]
        ELSE [exc |-> "None", job |-> db[CHOOSE i \in found : TRUE]]

\* ------------------------------------------------- jobs/permissions.py

\* Python results: the two booleans, and the exception that escapes
True == "True"

False == "False"

ValueError == "ValueError"

Bool(b) == IF b THEN True ELSE False

\* a quote test that looks at the directory alone
_is_quote_file_any_extension(path) ==
    IF Len(path) # 2 THEN ValueError
    ELSE Bool(path[1] = quotes_dirname)

\* `dirname, basename = path.parts` unpacks only a tuple of exactly two
_is_quote_file(path) ==
    IF Len(path) # 2 THEN ValueError
    ELSE LET dirname == path[1]
             basename == path[2]
             is_quotes_dir == dirname = quotes_dirname
             is_pdf_file == endswith(basename, PDF)
         IN  Bool(is_quotes_dir /\ is_pdf_file)

_is_deposit_proof_of_payment_file(path) ==
    IF Len(path) # 2 THEN ValueError
    ELSE LET dirname == path[1]
             basename == path[2]
             is_deposit_proofs_dir == dirname = deposit_proofs_dirname
             is_pdf_file == endswith(basename, PDF)
         IN  Bool(is_deposit_proofs_dir /\ is_pdf_file)

_is_invoice_file(path) ==
    IF Len(path) # 2 THEN ValueError
    ELSE LET dirname == path[1]
             basename == path[2]
             is_invoices_dir == dirname = invoices_dirname
             is_pdf_file == endswith(basename, PDF)
         IN  Bool(is_invoices_dir /\ is_pdf_file)

_is_final_payment_pop_file(path) ==
    IF Len(path) # 2 THEN ValueError
    ELSE LET dirname == path[1]
             basename == path[2]
             is_final_payment_proofs_dir == dirname = final_payment_proofs_dirname
             is_pdf_file == endswith(basename, PDF)
         IN  Bool(is_final_payment_proofs_dir /\ is_pdf_file)

\* an access test that takes the agent branch before the Marnie branch
_is_file_accessible_by_user_agent_first(user, path, field_name, db) ==
    IF user.is_agent THEN
        LET got == Job_objects_get(db, field_name, path)
        IN  IF got.exc # "None" THEN [ret |-> False, lookups |-> 1]
            ELSE [ret |-> Bool(got.job.agent = user.id), lookups |-> 1]
    ELSE IF user.is_marnie THEN [ret |-> True, lookups |-> 0]
    ELSE [ret |-> False, lookups |-> 0]

\* an access test whose lookup lets Job.DoesNotExist escape
_is_file_accessible_by_user_not_found_raises(user, path, field_name, db) ==
    IF user.is_marnie THEN [ret |-> True, lookups |-> 0]
    ELSE IF user.is_agent THEN
        LET got == Job_objects_get(db, field_name, path)
        IN  IF got.exc # "None" THEN [ret |-> got.exc, lookups |-> 1]
            ELSE [ret |-> Bool(got.job.agent = user.id), lookups |-> 1]
    ELSE [ret |-> False, lookups |-> 0]

\* ret: the value returned; lookups: the Job queries the call made
_is_file_accessible_by_user(user, path, field_name, db) ==
    IF user.is_marnie THEN [ret |-> True, lookups |-> 0]
    ELSE IF user.is_agent THEN
        LET got == Job_objects_get(db, field_name, path)
        IN  IF got.exc = "DoesNotExist" THEN [ret |-> False, lookups |-> 1]
            ELSE IF got.exc = "MultipleObjectsReturned"
                 THEN [ret |-> False, lookups |-> 1]
            ELSE [ret |-> Bool(got.job.agent = user.id), lookups |-> 1]
    ELSE [ret |-> False, lookups |-> 0]

_access_allowed_for_quote_file(user, path, db) ==
    _is_file_accessible_by_user(user, path, "quote", db)

_access_allowed_for_deposit_proof_of_payment_file(user, path, db) ==
    _is_file_accessible_by_user(user, path, "deposit_proof_of_payment", db)

\* an invoice test that queries the quote field
_access_allowed_for_invoice_file_by_quote(user, path, db) ==
    _is_file_accessible_by_user(user, path, "quote", db)

_access_allowed_for_invoice_file(user, path, db) ==
    _is_file_accessible_by_user(user, path, "invoice", db)

_access_allowed_for_final_payment_pop_file(user, path, db) ==
    _is_file_accessible_by_user(user, path, "final_payment_pop", db)

Raised(classified) == [ret |-> ValueError, classified |-> classified, lookups |-> 0]

Classified(r) == [ret |-> r.ret, classified |-> TRUE, lookups |-> r.lookups]

\* the category chain of _access_allowed, past the superuser branch
ClassifyAndCheck(user, path, db) ==
    IF _is_quote_file(path) = ValueError THEN Raised(TRUE)
    ELSE IF _is_quote_file(path) = True
         THEN Classified(_access_allowed_for_quote_file(user, path, db))
    ELSE IF _is_deposit_proof_of_payment_file(path) = ValueError THEN Raised(TRUE)
    ELSE IF _is_deposit_proof_of_payment_file(path) = True
         THEN Classified(_access_allowed_for_deposit_proof_of_payment_file(user, path, db))
    ELSE IF _is_invoice_file(path) = ValueError THEN Raised(TRUE)
    ELSE IF _is_invoice_file(path) = True
         THEN Classified(_access_allowed_for_invoice_file(user, path, db))
    ELSE IF _is_final_payment_pop_file(path) = ValueError THEN Raised(TRUE)
    ELSE IF _is_final_payment_pop_file(path) = True
         THEN Classified(_access_allowed_for_final_payment_pop_file(user, path, db))
    ELSE [ret |-> False, classified |-> TRUE, lookups |-> 0]

\* an access check that classifies the path before it looks at is_superuser
_access_allowed_classify_first(user, path, db) ==
    LET c == ClassifyAndCheck(user, path, db)
    IN  IF c.ret = ValueError THEN c
        ELSE IF user.is_superuser
        THEN [ret |-> True, classified |-> TRUE, lookups |-> c.lookups]
        ELSE c

\* an access check that lets Marnie through before it classifies the path
_access_allowed_marnie_first(user, path, db) ==
    IF user.is_superuser \/ user.is_marnie
    THEN [ret |-> True, classified |-> FALSE, lookups |-> 0]
    ELSE ClassifyAndCheck(user, path, db)

\* classified: whether a category test was evaluated on the path
_access_allowed(user, path, db) ==
    IF user.is_superuser THEN [ret |-> True, classified |-> FALSE, lookups |-> 0]
    ELSE ClassifyAndCheck(user, path, db)

_access_denied == False

\* a permission function that lets a superuser through before the path checks
private_media_permissions_superuser_first(user, raw, db) ==
    IF ~user.is_authenticated
    THEN [result |-> _access_denied, parsed |-> FALSE, classified |-> FALSE,
          lookups |-> 0]
    ELSE IF user.is_superuser
    THEN [result |-> True, parsed |-> FALSE, classified |-> FALSE, lookups |-> 0]
    ELSE LET path2 == Path(raw)
             a == _access_allowed(user, path2, db)
         IN  IF is_absolute(path2) \/ has_traverse(path2)
             THEN [result |-> _access_denied, parsed |-> TRUE,
                   classified |-> FALSE, lookups |-> 0]
             ELSE [result |-> IF a.ret = True THEN True
                              ELSE IF a.ret = ValueError THEN ValueError
                              ELSE _access_denied,
                   parsed |-> TRUE, classified |-> a.classified,
                   lookups |-> a.lookups]

\* a permission function that checks the path before is_authenticated
private_media_permissions_parse_first(user, raw, db) ==
    LET path2 == Path(raw)
        a == _access_allowed(user, path2, db)
    IN  IF is_absolute(path2) \/ has_traverse(path2) \/ ~user.is_authenticated
        THEN [result |-> _access_denied, parsed |-> TRUE,
              classified |-> FALSE, lookups |-> 0]
        ELSE [result |-> IF a.ret = True THEN True
                         ELSE IF a.ret = ValueError THEN ValueError
                         ELSE _access_denied,
              parsed |-> TRUE, classified |-> a.classified,
              lookups |-> a.lookups]

\* result: True, False or the exception that escapes; parsed: Path(path) was
\* built; classified, lookups: as above
private_media_permissions(user, raw, db) ==
    IF ~user.is_authenticated
    THEN [result |-> _access_denied, parsed |-> FALSE, classified |-> FALSE,
          lookups |-> 0]
    ELSE LET path2 == Path(raw)
         IN  IF is_absolute(path2)
             THEN [result |-> _access_denied, parsed |-> TRUE,
                   classified |-> FALSE, lookups |-> 0]
             ELSE IF has_traverse(path2)
             THEN [result |-> _access_denied, parsed |-> TRUE,
                   classified |-> FALSE, lookups |-> 0]
             ELSE LET a == _access_allowed(user, path2, db)
                  IN  IF a.ret \notin {True, False}
                      THEN [result |-> a.ret, parsed |-> TRUE,
                            classified |-> a.classified, lookups |-> a.lookups]
                      ELSE IF a.ret # True
                      THEN [result |-> _access_denied, parsed |-> TRUE,
                            classified |-> a.classified, lookups |-> a.lookups]
                      ELSE [result |-> True, parsed |-> TRUE,
                            classified |-> a.classified, lookups |-> a.lookups]

\* ------------------------------------------------------------ requests

\* the relative_name values a file request may carry
RawPaths ==
    {<<d, abc_pdf>> : d \in {quotes_dirname, deposit_proofs_dirname,
                             invoices_dirname, final_payment_proofs_dirname,
                             completion_photos_dirname}}
    \cup {<<quotes_dirname, abc_txt>>}
    \cup {<<abc_pdf>>, <<quotes_dirname, <<"sub">>, abc_pdf>>}
    \cup {<<EMPTY, quotes_dirname, abc_pdf>>}
    \cup {<<quotes_dirname, TRAVERSE, abc_pdf>>, <<TRAVERSE, abc_pdf>>}
    \cup {<<quotes_dirname, EMPTY, abc_pdf>>}

Idle == [pc |-> "idle"]

\* the requests that may be checked at the same time
Procs == {"p1", "p2"}

NoResponse == [view |-> "none"]

Init ==
    /\ jobs = <<>>
    /\ chk = Idle
    /\ procs = [p \in Procs |-> Idle]
    /\ resp = NoResponse
    /\ users = {}

\* a permission call that clears the quote of every job once it has queried
PrivateMediaPermissions_clearing_quotes(user, raw) ==
    /\ chk.pc = "idle"
    /\ LET r == private_media_permissions(user, raw, jobs)
       IN  /\ chk' = [pc |-> "done", user |-> user, path |-> raw,
                      result |-> r.result, parsed |-> r.parsed,
                      classified |-> r.classified, lookups |-> r.lookups]
           /\ jobs' = IF r.lookups = 0 THEN jobs
                      ELSE [i \in DOMAIN jobs |-> [jobs[i] EXCEPT !.quote = NoFile]]
    /\ UNCHANGED <<procs, resp, users>>

\* The storage view calls the permission function with the request and the
\* requested relative name; chk keeps the call's arguments and its outcome.
\* The call is synchronous and makes a single query, so it is one step; the
\* job table is written between calls (chk.pc = "idle"), never while an
\* outcome is on its way back, which keeps chk an observation of the table
\* the call read.
PrivateMediaPermissions(user, raw) ==
    /\ chk.pc = "idle"
    /\ LET r == private_media_permissions(user, raw, jobs)
       IN  chk' = [pc |-> "done", user |-> user, path |-> raw,
                   result |-> r.result, parsed |-> r.parsed,
                   classified |-> r.classified, lookups |-> r.lookups]
    /\ UNCHANGED <<jobs, procs, resp, users>>

\* The outcome goes back to the storage view and the call is over.
ReturnToCaller ==
    /\ chk.pc = "done"
    /\ chk' = Idle
    /\ UNCHANGED <<jobs, procs, resp, users>>

\* The workflow creates a job for an agent; its document fields are empty.
CreateJob(agent) ==
    /\ chk.pc = "idle"
    /\ Len(jobs) < MaxJobs
    /\ jobs' = Append(jobs, NewJob(agent))
    /\ UNCHANGED <<chk, procs, resp, users>>

\* The workflow stores a document in a file field of a job; nothing keeps
\* the stored name apart from the names other jobs hold.
StoreDocument(j, field_name, name) ==
    /\ chk.pc = "idle"
    /\ j \in DOMAIN jobs
    /\ jobs[j][field_name] # name
    /\ jobs[j][field_name] # NoFile \/ TotalFiles(jobs) < MaxFiles
    /\ jobs' = [jobs EXCEPT ![j][field_name] = name]
    /\ UNCHANGED <<chk, procs, resp, users>>

Next ==
    \/ \E user \in RequestUsers, raw \in RawPaths : PrivateMediaPermissions(user, raw)
    \/ ReturnToCaller
    \/ \E agent \in UserIds : CreateJob(agent)
    \/ \E j \in 1..MaxJobs, f \in FieldNames :
          \E name \in StoredNames(f) : StoreDocument(j, f, name)

Spec == Init /\ [][Next]_vars

\* ================================================================= claims

Done == chk.pc = "done"

CategoryDirs ==
    {quotes_dirname, deposit_proofs_dirname, invoices_dirname,
     final_payment_proofs_dirname}

\* the Job field that goes with a category directory
FieldOfDir(d) ==
    CASE d = quotes_dirname -> "quote"
      [] d = deposit_proofs_dirname -> "deposit_proof_of_payment"
      [] d = invoices_dirname -> "invoice"
      [] d = final_payment_proofs_dirname -> "final_payment_pop"

RawTraversing(raw) == \E i \in DOMAIN raw : raw[i] = TRAVERSE

\* neither absolute nor holding a ".." segment
Safe(raw) == ~StartsWithSlash(raw) /\ ~RawTraversing(raw)

\* a category directory and a .pdf file name
InCategory(parts) ==
    /\ Len(parts) = 2
    /\ parts[1] \in CategoryDirs
    /\ endswith(parts[2], PDF)

ValidDocument(raw) == Safe(raw) /\ InCategory(Path(raw))

\* the jobs that hold the name in the field
Holders(db, field_name, name) == {i \in DOMAIN db : db[i][field_name] = name}

AgentOnly(user) ==
    user.is_authenticated /\ user.is_agent /\ ~user.is_superuser /\ ~user.is_marnie

\* C1: a request whose path is absolute or has a ".." segment is denied,
\* whatever the user's role flags, superusers included.
C1_TraversalOrAbsoluteDenied ==
    (Done /\ (StartsWithSlash(chk.path) \/ RawTraversing(chk.path)))
        => chk.result = False

C1_Witness ==
    /\ Done
    /\ chk.user.is_superuser
    /\ RawTraversing(chk.path)
    /\ chk.result = False

\* C2: for an agent (no other role) and a valid document path of category
\* directory D, the decision is allow exactly when one single job holds the
\* path in D's field and that job's agent is the requesting user.
C2_AgentAllowedIffUniqueOwnedJob ==
    (Done /\ AgentOnly(chk.user) /\ ValidDocument(chk.path)) =>
        LET name == Path(chk.path)
            held == Holders(jobs, FieldOfDir(name[1]), name)
        IN  /\ chk.result \in {True, False}
            /\ chk.result = True <=>
                  /\ Cardinality(held) = 1
                  /\ \A i \in held : jobs[i].agent = chk.user.id

C2_Witness ==
    /\ Done
    /\ AgentOnly(chk.user)
    /\ ValidDocument(chk.path)
    /\ chk.result = True
    /\ \E i \in DOMAIN jobs, f \in FieldNames :
          /\ jobs[i].agent # chk.user.id
          /\ f # FieldOfDir(Path(chk.path)[1])
          /\ jobs[i][f] = Path(chk.path)

\* C3: an authenticated superuser is allowed every path that is neither
\* absolute nor traversing, whatever its shape, category or job.
C3_SuperuserAllowedOnSafePath ==
    (Done /\ chk.user.is_authenticated /\ chk.user.is_superuser /\ Safe(chk.path))
        => chk.result = True

C3_Witness ==
    /\ Done
    /\ chk.user.is_superuser
    /\ Safe(chk.path)
    /\ Len(Path(chk.path)) # 2
    /\ chk.result = True

\* C4: an authenticated contractor (is_marnie) is allowed every valid
\* document path, without any job lookup.
C4_ContractorAllowedOnValidDocument ==
    (Done /\ chk.user.is_authenticated /\ chk.user.is_marnie
          /\ ValidDocument(chk.path))
        => (chk.result = True /\ chk.lookups = 0)

C4_Witness ==
    /\ Done
    /\ chk.user.is_marnie
    /\ chk.user.is_agent
    /\ ~chk.user.is_superuser
    /\ ValidDocument(chk.path)
    /\ \E i \in DOMAIN jobs : jobs[i].agent # chk.user.id
    /\ Holders(jobs, FieldOfDir(Path(chk.path)[1]), Path(chk.path)) = {}
    /\ chk.result = True

\* C5 as stated: a contractor is allowed every two-segment path that passes
\* the absolute/traversal gate, whatever its category ("quotes/abc.txt").
C5_ContractorAllowedWhateverCategory ==
    (Done /\ chk.user.is_authenticated /\ chk.user.is_marnie
          /\ Safe(chk.path) /\ Len(Path(chk.path)) = 2)
        => chk.result = True

\* C5 amended: a contractor who is not a superuser is allowed a two-segment
\* path that passes the gate exactly when the path is in one of the four
\* categories; "quotes/abc.txt" is denied.
C5_ContractorAllowedIffInCategory ==
    (Done /\ chk.user.is_authenticated /\ chk.user.is_marnie
          /\ ~chk.user.is_superuser
          /\ Safe(chk.path) /\ Len(Path(chk.path)) = 2)
        => (chk.result = IF InCategory(Path(chk.path)) THEN True ELSE False)

C5_Witness ==
    /\ Done
    /\ chk.user.is_marnie
    /\ ~chk.user.is_superuser
    /\ chk.path = <<quotes_dirname, abc_txt>>
    /\ chk.result = False

\* C6: for an authenticated non-superuser (a contractor included), a safe
\* path that matches none of the four categories is denied.
C6_UncategorisedDenied ==
    (Done /\ chk.user.is_authenticated /\ ~chk.user.is_superuser
          /\ Safe(chk.path) /\ ~InCategory(Path(chk.path)))
        => chk.result = False

\* C7: for a user that is neither superuser nor contractor, a two-segment
\* path outside the four categories (unknown directory, or no .pdf name) is
\* denied, also when a job of that user stores exactly that path.
C7_TwoSegmentUncategorisedDenied ==
    (Done /\ ~chk.user.is_superuser /\ ~chk.user.is_marnie
          /\ Len(Path(chk.path)) = 2 /\ ~InCategory(Path(chk.path)))
        => chk.result = False

C7_Witness ==
    /\ Done
    /\ AgentOnly(chk.user)
    /\ Len(Path(chk.path)) = 2
    /\ ~InCategory(Path(chk.path))
    /\ \E i \in DOMAIN jobs, f \in FieldNames :
          jobs[i].agent = chk.user.id /\ jobs[i][f] = Path(chk.path)
    /\ chk.result = False

\* C8: for an authenticated non-superuser and a relative, non-traversing
\* path whose number of segments is not two, the check returns deny and
\* does not end in an error.
C8_WrongSegmentCountDenied ==
    (Done /\ chk.user.is_authenticated /\ ~chk.user.is_superuser
          /\ Safe(chk.path) /\ Len(Path(chk.path)) # 2)
        => chk.result = False

\* C9: an unauthenticated request is denied for every path, before the path
\* is parsed, classified or looked up.
C9_UnauthenticatedDeniedFirst ==
    (Done /\ ~chk.user.is_authenticated) =>
        /\ chk.result = False
        /\ ~chk.parsed
        /\ ~chk.classified
        /\ chk.lookups = 0

C9_Witness ==
    /\ Done
    /\ ~chk.user.is_authenticated
    /\ ValidDocument(chk.path)
    /\ Holders(jobs, FieldOfDir(Path(chk.path)[1]), Path(chk.path)) # {}
    /\ chk.result = False

\* C10: when an agent requests a valid document path that more than one job
\* holds in the category's field, the decision is deny, also when every
\* matching job is the agent's own.
C10_AmbiguousLookupDenied ==
    (Done /\ AgentOnly(chk.user) /\ ValidDocument(chk.path)
          /\ Cardinality(Holders(jobs, FieldOfDir(Path(chk.path)[1]),
                                 Path(chk.path))) > 1)
        => chk.result = False

C10_Witness ==
    /\ Done
    /\ AgentOnly(chk.user)
    /\ ValidDocument(chk.path)
    /\ LET held == Holders(jobs, FieldOfDir(Path(chk.path)[1]), Path(chk.path))
       IN  /\ Cardinality(held) > 1
           /\ \A i \in held : jobs[i].agent = chk.user.id
    /\ chk.result = False

\* C11: when an agent requests a valid document path that no job holds in
\* the category's field, the check returns deny: the boolean False, not a
\* not-found error.
C11_NoJobDenied ==
    (Done /\ AgentOnly(chk.user) /\ ValidDocument(chk.path)
          /\ Holders(jobs, FieldOfDir(Path(chk.path)[1]), Path(chk.path)) = {})
        => (chk.result = False /\ chk.lookups = 1)

C11_Witness ==
    /\ Done
    /\ AgentOnly(chk.user)
    /\ ValidDocument(chk.path)
    /\ Holders(jobs, FieldOfDir(Path(chk.path)[1]), Path(chk.path)) = {}
    /\ \E i \in DOMAIN jobs : jobs[i].agent = chk.user.id
    /\ chk.result = False
    /\ chk.lookups = 1

\* C12: an authenticated user with none of the superuser, contractor and
\* agent flags is denied every path, valid document paths of existing jobs
\* included.
C12_NoRoleDenied ==
    (Done /\ chk.user.is_authenticated /\ ~chk.user.is_superuser
          /\ ~chk.user.is_marnie /\ ~chk.user.is_agent)
        => chk.result = False

\* the cases in which an agent's request is not allowed
NoJobHolds(raw) ==
    ValidDocument(raw)
    /\ Holders(jobs, FieldOfDir(Path(raw)[1]), Path(raw)) = {}

OthersJobHolds(user, raw) ==
    ValidDocument(raw)
    /\ \E i \in Holders(jobs, FieldOfDir(Path(raw)[1]), Path(raw)) :
          jobs[i].agent # user.id

Malformed(raw) == ~ValidDocument(raw)

\* C13: for an agent, every denied case (no job holds the path, the path
\* belongs to another agent's job, the path is malformed) has the one
\* outcome False, so the caller cannot tell the cases apart.
C13_UniformDenial ==
    (Done /\ AgentOnly(chk.user)
          /\ (NoJobHolds(chk.path) \/ OthersJobHolds(chk.user, chk.path)
                \/ Malformed(chk.path)))
        => chk.result = False

\* the five-step chain: unauthenticated -> deny; absolute or ".." -> deny;
\* superuser -> allow; no category -> deny; contractor -> allow, agent ->
\* unique owned job, any other role -> deny
Chain(user, raw, db) ==
    IF ~user.is_authenticated THEN False
    ELSE IF StartsWithSlash(raw) \/ RawTraversing(raw) THEN False
    ELSE IF user.is_superuser THEN True
    ELSE IF ~InCategory(Path(raw)) THEN False
    ELSE IF user.is_marnie THEN True
    ELSE IF user.is_agent
    THEN LET held == Holders(db, FieldOfDir(Path(raw)[1]), Path(raw))
         IN  Bool(Cardinality(held) = 1 /\ \A i \in held : db[i].agent = user.id)
    ELSE False

\* C14: for every combination of user flags, path and job table, the check
\* returns what the five-step short-circuit chain returns.
C14_ReturnsChainResult ==
    Done => chk.result = Chain(chk.user, chk.path, jobs)

C18_SuperuserAgentAllowedWithoutLookup ==
    (Done /\ chk.user.is_authenticated /\ chk.user.is_superuser
          /\ chk.user.is_agent /\ Safe(chk.path))
        => (chk.result = True /\ chk.lookups = 0)

C18_Witness ==
    /\ Done
    /\ chk.user.is_superuser
    /\ chk.user.is_agent
    /\ ~chk.user.is_marnie
    /\ ValidDocument(chk.path)
    /\ LET held == Holders(jobs, FieldOfDir(Path(chk.path)[1]), Path(chk.path))
       IN  /\ held # {}
           /\ \A i \in held : jobs[i].agent # chk.user.id
    /\ chk.result = True
    /\ chk.lookups = 0

\* ------------------------------------------------- concurrent checks

\* Each request runs private_media_permissions on its own; the one point
\* where a check reads shared data is the Job query of
\* _is_file_accessible_by_user. Everything before the query depends on the
\* request alone, so a check is two steps: up to the query, and the query
\* with the rest of the decision. Other requests write jobs in between.

ConcUsers == {u \in RequestUsers : AgentOnly(u)}

ConcPaths == {<<quotes_dirname, abc_pdf>>, <<quotes_dirname, abc_txt>>}

ConcNames == {<<quotes_dirname, abc_pdf>>, <<quotes_dirname, abc_txt>>}

NotQueried == [count |-> 0, agents |-> {}, queried |-> FALSE]

\* what the job table held for the path at the moment of the query
Queried(db, raw) ==
    LET held == Holders(db, FieldOfDir(Path(raw)[1]), Path(raw))
    IN  [count |-> Cardinality(held), agents |-> {db[i].agent : i \in held},
         queried |-> TRUE]

\* the check runs up to its Job query; a check that needs no query is over
BeginCheck(p, user, raw) ==
    /\ procs[p].pc = "idle"
    /\ LET r == private_media_permissions(user, raw, <<>>)
       IN  procs' = [procs EXCEPT ![p] =
                IF r.lookups = 0
                THEN [pc |-> "done", user |-> user, path |-> raw,
                      result |-> r.result, seen |-> NotQueried]
                ELSE [pc |-> "lookup", user |-> user, path |-> raw]]
    /\ UNCHANGED <<jobs, chk, resp, users>>

\* the Job query and the decision taken on its answer
Lookup(p) ==
    /\ procs[p].pc = "lookup"
    /\ LET r == private_media_permissions(procs[p].user, procs[p].path, jobs)
       IN  procs' = [procs EXCEPT ![p] =
                [pc |-> "done", user |-> procs[p].user, path |-> procs[p].path,
                 result |-> r.result, seen |-> Queried(jobs, procs[p].path)]]
    /\ UNCHANGED <<jobs, chk, resp, users>>

EndCheck(p) ==
    /\ procs[p].pc = "done"
    /\ procs' = [procs EXCEPT ![p] = Idle]
    /\ UNCHANGED <<jobs, chk, resp, users>>

ConcNext ==
    \/ \E p \in Procs, user \in ConcUsers, raw \in ConcPaths : BeginCheck(p, user, raw)
    \/ \E p \in Procs : Lookup(p)
    \/ \E p \in Procs : EndCheck(p)
    \/ \E agent \in UserIds : CreateJob(agent)
    \/ \E j \in 1..MaxJobs, name \in ConcNames : StoreDocument(j, "quote", name)

ConcSpec == Init /\ [][ConcNext]_vars

\* C17: however an agent's check interleaves with job creations and
\* updates, it allows only if, at its one query, exactly one job held the
\* path in the category's field and that job's agent was the requester
\* (and it allows whenever that was so); the result is settled by the
\* check's own query, whatever the other check does; and a check that is
\* waiting for its query keeps no writer from writing.
C17_AllowMeansUniqueOwnedAtLookup ==
    /\ \A p \in Procs :
          procs[p].pc = "done" =>
              (procs[p].result = True <=>
                  /\ procs[p].seen.queried
                  /\ procs[p].seen.count = 1
                  /\ procs[p].seen.agents = {procs[p].user.id})
    /\ ((\E p \in Procs : procs[p].pc = "lookup") /\ Len(jobs) < MaxJobs)
          => ENABLED CreateJob("bob")

\* an allow that stands while the table has moved on: a second job now
\* holds the same path, and the other check was denied on it
C17_Witness ==
    /\ procs["p1"].pc = "done"
    /\ procs["p1"].result = True
    /\ Cardinality(Holders(jobs, "quote", Path(procs["p1"].path))) = 2
    /\ procs["p2"].pc = "done"
    /\ procs["p2"].user = procs["p1"].user
    /\ procs["p2"].path = procs["p1"].path
    /\ procs["p2"].result = False

\* ------------------------------------------- job detail and update views

HTTP_200_OK == 200

HTTP_302_FOUND == 302

HTTP_403_FORBIDDEN == 403

\* a detail view that admits every agent
JobDetailView_test_func_any_agent(user, job) ==
    user.is_marnie \/ user.is_superuser \/ user.is_agent

\* the detail page is for Marnie, for an admin and for the agent who
\* created the job
JobDetailView_test_func(user, job) ==
    user.is_marnie \/ user.is_superuser \/ (user.is_agent /\ job.agent = user.id)

\* an update view that also admits the agent who created the job
JobUpdateView_test_func_creator(user, job) ==
    \/ user.is_superuser
    \/ (user.is_marnie /\ job.status = PENDING_INSPECTION)
    \/ (user.is_agent /\ job.agent = user.id)

\* an update view that admits Marnie whatever the job's status
JobUpdateView_test_func_any_status(user, job) ==
    user.is_marnie \/ user.is_superuser

\* the update view is for an admin, and for Marnie until the initial
\* inspection is completed
JobUpdateView_test_func(user, job) ==
    user.is_superuser \/ (user.is_marnie /\ job.status = PENDING_INSPECTION)

\* the detail page shows the Update link to those the update view admits
update_link_present(user, job) == JobUpdateView_test_func(user, job)

\* the files a quote upload may be: name, and whether the bytes are a PDF
\* and what the bytes are
test_pdf == [name |-> <<"test", PDF>>, is_pdf |-> TRUE, content |-> "pdf_1"]

test_pdf_2 == [name |-> <<"test_2", PDF>>, is_pdf |-> TRUE, content |-> "pdf_2"]

test_txt == [name |-> <<"test", TXT>>, is_pdf |-> FALSE, content |-> "text"]

\* no file in the quote field of the form
NoUpload == [name |-> <<>>, is_pdf |-> FALSE, content |-> None]

Uploads ==
    {test_pdf, test_txt,
     [name |-> <<"test", PDF>>, is_pdf |-> FALSE, content |-> "text"]}

InspectionDates == {"2001-02-05"}

\* the form wants an inspection date and a quote that is a PDF by name and
\* by content
JobUpdateForm_is_valid(date, quote) ==
    /\ date # None
    /\ quote # NoUpload
    /\ endswith(quote.name, PDF)
    /\ quote.is_pdf

NoForm == [date |-> None, quote |-> NoUpload]

\* form: what was posted; location: where a redirect leads; errors: the
\* form errors of the page
Response(view, method, user, j, status_code) ==
    [view |-> view, method |-> method, user |-> user, job |-> j,
     status_code |-> status_code, update_link |-> FALSE, saved |-> FALSE,
     form |-> NoForm, location |-> None, errors |-> {}]

\* an update that stores date and quote and leaves the status as it was
JobUpdateView_form_valid_keeps_status(job, date, quote) ==
    [job EXCEPT !.date_of_inspection = date,
                !.quote = <<quotes_dirname, quote.name>>,
                !.quote_content = quote.content]

\* the job as the update view saves it
JobUpdateView_form_valid(job, date, quote) ==
    [job EXCEPT !.date_of_inspection = date,
                !.quote = <<quotes_dirname, quote.name>>,
                !.quote_content = quote.content,
                !.status = INSPECTION_COMPLETED]

\* GET /jobs/<pk>/
JobDetailView_get(user, j) ==
    /\ j \in DOMAIN jobs
    /\ resp' =
          IF ~user.is_authenticated
          THEN [Response("job_detail", "GET", user, j, HTTP_302_FOUND)
                   EXCEPT !.location = "login"]
          ELSE IF ~JobDetailView_test_func(user, jobs[j])
          THEN Response("job_detail", "GET", user, j, HTTP_403_FORBIDDEN)
          ELSE [Response("job_detail", "GET", user, j, HTTP_200_OK)
                   EXCEPT !.update_link = update_link_present(user, jobs[j])]
    /\ UNCHANGED <<jobs, chk, procs, users>>

\* GET /jobs/<pk>/update/
JobUpdateView_get(user, j) ==
    /\ j \in DOMAIN jobs
    /\ resp' =
          IF ~user.is_authenticated
          THEN [Response("job_update", "GET", user, j, HTTP_302_FOUND)
                   EXCEPT !.location = "login"]
          ELSE IF ~JobUpdateView_test_func(user, jobs[j])
          THEN Response("job_update", "GET", user, j, HTTP_403_FORBIDDEN)
          ELSE Response("job_update", "GET", user, j, HTTP_200_OK)
    /\ UNCHANGED <<jobs, chk, procs, users>>

\* POST /jobs/<pk>/update/: a valid form stores the date and the quote,
\* completes the inspection and redirects to the detail page; an invalid
\* one shows the form again
JobUpdateView_post(user, j, date, quote) ==
    /\ j \in DOMAIN jobs
    /\ IF ~user.is_authenticated
       THEN /\ resp' = [Response("job_update", "POST", user, j, HTTP_302_FOUND)
                           EXCEPT !.form = [date |-> date, quote |-> quote],
                                  !.location = "login"]
            /\ UNCHANGED jobs
       ELSE IF ~JobUpdateView_test_func(user, jobs[j])
       THEN /\ resp' = [Response("job_update", "POST", user, j, HTTP_403_FORBIDDEN)
                           EXCEPT !.form = [date |-> date, quote |-> quote]]
            /\ UNCHANGED jobs
       ELSE IF ~JobUpdateForm_is_valid(date, quote)
       THEN /\ resp' = [Response("job_update", "POST", user, j, HTTP_200_OK)
                           EXCEPT !.form = [date |-> date, quote |-> quote]]
            /\ UNCHANGED jobs
       ELSE /\ jobs' = [jobs EXCEPT ![j] = JobUpdateView_form_valid(jobs[j], date, quote)]
            /\ resp' = [Response("job_update", "POST", user, j, HTTP_302_FOUND)
                           EXCEPT !.saved = TRUE,
                                  !.form = [date |-> date, quote |-> quote],
                                  !.location = "job_detail"]
    /\ UNCHANGED <<chk, procs, users>>

\* who sends requests to the job views: nobody logged in, bob with every
\* combination of role flags, and peter as a second agent
ViewUsers ==
    {u \in RequestUsers : ~u.is_authenticated \/ u.id = "bob" \/ AgentOnly(u)}

ViewNext ==
    \/ \E agent \in UserIds : CreateJob(agent)
    \/ \E user \in ViewUsers, j \in 1..MaxJobs : JobDetailView_get(user, j)
    \/ \E user \in ViewUsers, j \in 1..MaxJobs : JobUpdateView_get(user, j)
    \/ \E user \in ViewUsers, j \in 1..MaxJobs :
          \E date \in InspectionDates \cup {None}, quote \in Uploads \cup {NoUpload} :
             JobUpdateView_post(user, j, date, quote)

ViewSpec == Init /\ [][ViewNext]_vars

\* the Marnie user of the workflow: Marnie's flag, no admin rights
MarnieOnly(user) ==
    user.is_authenticated /\ user.is_marnie /\ ~user.is_superuser

\* C19: the job detail view redirects an anonymous user to login (302);
\* gives an agent the page (200) for the jobs that agent created and 403
\* for every job of another agent; gives Marnie and an admin the page (200)
\* for any job.
C19_JobDetailAccess ==
    resp.view = "job_detail" =>
        /\ ~resp.user.is_authenticated => resp.status_code = HTTP_302_FOUND
        /\ AgentOnly(resp.user) =>
              resp.status_code = IF jobs[resp.job].agent = resp.user.id
                                 THEN HTTP_200_OK ELSE HTTP_403_FORBIDDEN
        /\ (resp.user.is_authenticated
              /\ (resp.user.is_marnie \/ resp.user.is_superuser))
              => resp.status_code = HTTP_200_OK

\* an agent is refused the inspected job of another agent
C19_Witness ==
    /\ resp.view = "job_detail"
    /\ AgentOnly(resp.user)
    /\ jobs[resp.job].agent # resp.user.id
    /\ jobs[resp.job].status = INSPECTION_COMPLETED
    /\ \E i \in DOMAIN jobs : jobs[i].agent = resp.user.id
    /\ resp.status_code = HTTP_403_FORBIDDEN

\* C20: once a job's status is INSPECTION_COMPLETED it stays so, and from
\* then on every request of Marnie to the job's update view (GET or POST)
\* is answered 403 and leaves the job alone, and the job's detail page
\* shows Marnie no Update link.
C20_NoUpdateByMarnieAfterInspection ==
    [][/\ \A j \in DOMAIN jobs :
             jobs[j].status = INSPECTION_COMPLETED
                 => (j \in DOMAIN jobs' /\ jobs'[j].status = INSPECTION_COMPLETED)
       /\ (/\ resp' # resp
           /\ resp'.view \in {"job_update", "job_detail"}
           /\ MarnieOnly(resp'.user)
           /\ jobs[resp'.job].status = INSPECTION_COMPLETED)
          => IF resp'.view = "job_update"
             THEN resp'.status_code = HTTP_403_FORBIDDEN /\ jobs' = jobs
             ELSE resp'.status_code = HTTP_200_OK /\ ~resp'.update_link]_vars

\* Marnie is refused the update view of a job Marnie has inspected
C20_Witness ==
    /\ resp.view = "job_update"
    /\ MarnieOnly(resp.user)
    /\ jobs[resp.job].status = INSPECTION_COMPLETED
    /\ jobs[resp.job].date_of_inspection # None
    /\ jobs[resp.job].quote = <<quotes_dirname, test_pdf.name>>
    /\ resp.status_code = HTTP_403_FORBIDDEN

\* C21: when Marnie posts a valid inspection date and a valid PDF quote to
\* the update view of a job that is still pending inspection, the job gets
\* that date and that quote, its status becomes INSPECTION_COMPLETED,
\* nothing else of it changes, and the response redirects to the job's
\* detail page.
C21_UpdateByMarnieCompletesInspection ==
    [][(/\ resp' # resp
        /\ resp'.view = "job_update"
        /\ resp'.method = "POST"
        /\ resp'.user.is_authenticated
        /\ resp'.user.is_marnie
        /\ jobs[resp'.job].status = PENDING_INSPECTION
        /\ resp'.form = [date |-> "2001-02-05", quote |-> test_pdf])
       => (/\ jobs' = [jobs EXCEPT ![resp'.job] =
                         [@ EXCEPT !.date_of_inspection = "2001-02-05",
                                   !.quote = <<quotes_dirname, <<"test", PDF>>>>,
                                   !.quote_content = "pdf_1",
                                   !.status = INSPECTION_COMPLETED]]
           /\ resp'.status_code = HTTP_302_FOUND
           /\ resp'.location = "job_detail")]_vars

C21_Witness ==
    /\ resp.view = "job_update"
    /\ resp.method = "POST"
    /\ MarnieOnly(resp.user)
    /\ ~resp.user.is_agent
    /\ resp.saved
    /\ resp.status_code = HTTP_302_FOUND
    /\ jobs[resp.job].status = INSPECTION_COMPLETED
    /\ jobs[resp.job].date_of_inspection = "2001-02-05"
    /\ jobs[resp.job].quote = <<quotes_dirname, <<"test", PDF>>>>
    /\ jobs[resp.job].agent = "bob"

\* C22: for a job still pending inspection, the update view redirects an
\* anonymous user to login, answers an agent 403 (the job's creator
\* too), and gives Marnie and a superuser the page (200).
C22_JobUpdateAccessBeforeInspection ==
    (/\ resp.view = "job_update"
     /\ resp.method = "GET"
     /\ jobs[resp.job].status = PENDING_INSPECTION) =>
        /\ ~resp.user.is_authenticated
              => (resp.status_code = HTTP_302_FOUND /\ resp.location = "login")
        /\ AgentOnly(resp.user) => resp.status_code = HTTP_403_FORBIDDEN
        /\ (resp.user.is_authenticated
              /\ (resp.user.is_marnie \/ resp.user.is_superuser))
              => resp.status_code = HTTP_200_OK

\* the agent who created the job is refused its update view
C22_Witness ==
    /\ resp.view = "job_update"
    /\ resp.method = "GET"
    /\ jobs[resp.job].status = PENDING_INSPECTION
    /\ AgentOnly(resp.user)
    /\ jobs[resp.job].agent = resp.user.id
    /\ resp.status_code = HTTP_403_FORBIDDEN

\* ------------------------------------------------------ quote update view

QUOTE_REJECTED_BY_AGENT == "quote_rejected_by_agent"

\* the users of the test fixtures
bob_agent_user ==
    [id |-> "bob", is_authenticated |-> TRUE, is_superuser |-> FALSE,
     is_marnie |-> FALSE, is_agent |-> TRUE]

marnie_user ==
    [id |-> "marnie", is_authenticated |-> TRUE, is_superuser |-> FALSE,
     is_marnie |-> TRUE, is_agent |-> FALSE]

superuser_user ==
    [id |-> "admin", is_authenticated |-> TRUE, is_superuser |-> TRUE,
     is_marnie |-> FALSE, is_agent |-> FALSE]

QuoteUsers == {AnonymousUser, bob_agent_user, marnie_user, superuser_user}

QuoteUploads == {test_pdf, test_pdf_2, test_txt, NoUpload}

\* the quote update view is for Marnie and for an admin
QuoteUpdateView_test_func(user, job) == user.is_marnie \/ user.is_superuser

\* a quote form that takes the job's current quote for a new one
QuoteUpdateForm_errors_accepts_same(job, quote) ==
    IF quote = NoUpload THEN {"You must provide a new quote"}
    ELSE IF ~endswith(quote.name, PDF)
    THEN {"File extension is not allowed. Allowed extensions are: pdf."}
    ELSE IF ~quote.is_pdf THEN {"This is not a valid PDF file."}
    ELSE {}

\* the errors of the quote form: the quote has to be a new file, and a PDF
\* by name and by content
QuoteUpdateForm_errors(job, quote) ==
    IF quote = NoUpload \/ quote.content = job.quote_content
    THEN {"You must provide a new quote"}
    ELSE IF ~endswith(quote.name, PDF)
    THEN {"File extension is not allowed. Allowed extensions are: pdf."}
    ELSE IF ~quote.is_pdf THEN {"This is not a valid PDF file."}
    ELSE {}

\* the agent turns the quote down
RejectQuote(j) ==
    /\ j \in DOMAIN jobs
    /\ jobs[j].status = INSPECTION_COMPLETED
    /\ jobs' = [jobs EXCEPT ![j].status = QUOTE_REJECTED_BY_AGENT]
    /\ UNCHANGED <<chk, procs, resp, users>>

\* POST /jobs/<pk>/update-quote/ for a job whose quote was rejected
QuoteUpdateView_post(user, j, quote) ==
    /\ j \in DOMAIN jobs
    /\ jobs[j].status = QUOTE_REJECTED_BY_AGENT
    /\ LET posted == [date |-> None, quote |-> quote]
           errors == QuoteUpdateForm_errors(jobs[j], quote)
       IN  IF ~user.is_authenticated
           THEN /\ resp' = [Response("update_quote", "POST", user, j, HTTP_302_FOUND)
                               EXCEPT !.form = posted, !.location = "login"]
                /\ UNCHANGED jobs
           ELSE IF ~QuoteUpdateView_test_func(user, jobs[j])
           THEN /\ resp' = [Response("update_quote", "POST", user, j, HTTP_403_FORBIDDEN)
                               EXCEPT !.form = posted]
                /\ UNCHANGED jobs
           ELSE IF errors # {}
           THEN /\ resp' = [Response("update_quote", "POST", user, j, HTTP_200_OK)
                               EXCEPT !.form = posted, !.errors = errors]
                /\ UNCHANGED jobs
           ELSE /\ jobs' = [jobs EXCEPT ![j].quote = <<quotes_dirname, quote.name>>,
                                        ![j].quote_content = quote.content]
                /\ resp' = [Response("update_quote", "POST", user, j, HTTP_302_FOUND)
                               EXCEPT !.saved = TRUE, !.form = posted,
                                      !.location = "job_detail"]
    /\ UNCHANGED <<chk, procs, users>>

QuoteNext ==
    \/ \E agent \in UserIds : CreateJob(agent)
    \/ \E j \in 1..MaxJobs, date \in InspectionDates :
          JobUpdateView_post(marnie_user, j, date, test_pdf)
    \/ \E j \in 1..MaxJobs : RejectQuote(j)
    \/ \E user \in QuoteUsers, j \in 1..MaxJobs, quote \in QuoteUploads :
          QuoteUpdateView_post(user, j, quote)

QuoteSpec == Init /\ [][QuoteNext]_vars

\* C23: a quote update that posts the very file the job holds as its quote
\* is answered 200 with the form error "You must provide a new quote", no
\* redirect, and the job keeps its quote; one that posts a different PDF
\* replaces the quote and redirects to the job's detail page.
C23_SameQuoteRejectedNewQuoteStored ==
    [][(/\ resp' # resp
        /\ resp'.view = "update_quote"
        /\ resp'.method = "POST"
        /\ resp'.user.is_authenticated
        /\ (resp'.user.is_marnie \/ resp'.user.is_superuser)
        /\ resp'.form.quote \in {test_pdf, test_pdf_2})
       => IF resp'.form.quote.content = jobs[resp'.job].quote_content
          THEN /\ resp'.status_code = HTTP_200_OK
               /\ resp'.errors = {"You must provide a new quote"}
               /\ resp'.location = None
               /\ jobs' = jobs
          ELSE /\ jobs' = [jobs EXCEPT
                             ![resp'.job].quote = <<quotes_dirname, resp'.form.quote.name>>,
                             ![resp'.job].quote_content = resp'.form.quote.content]
               /\ resp'.status_code = HTTP_302_FOUND
               /\ resp'.location = "job_detail"]_vars

\* the replaced quote is in turn refused when it is posted again
C23_Witness ==
    /\ resp.view = "update_quote"
    /\ resp.user = superuser_user
    /\ resp.form.quote = test_pdf_2
    /\ resp.status_code = HTTP_200_OK
    /\ resp.errors = {"You must provide a new quote"}
    /\ jobs[resp.job].quote = <<quotes_dirname, test_pdf_2.name>>
    /\ jobs[resp.job].quote_content = "pdf_2"

\* ------------------------------------------------------------ jobs/views.py

\* users holds the User rows where a view reads the user table: the job
\* list looks up the named agent, the job form looks up Marnie. A logged-in
\* request.user is one of the rows; a username is the row's id.

HTTP_400_BAD_REQUEST == 400

\* the response the framework gives when an exception leaves a view
HTTP_500_INTERNAL_SERVER_ERROR == 500

UserRows == RequestUsers \ {AnonymousUser}

\* request.GET.get("agent"): absent, empty, or a username
AgentParams == {None, "", "bob", "peter", "nobody"}

\* User.objects.get(username=username)
User_objects_get(table, username) ==
    LET found == {u \in table : u.id = username}
    IN  IF found = {} THEN [exc |-> "DoesNotExist"]
        ELSE [exc |-> "None", user |-> CHOOSE u \in found : TRUE]

\* Job.objects.filter(agent=agent), as the set of the rows' positions
Job_objects_filter(db, agent) == {i \in DOMAIN db : db[i].agent = agent.id}

\* Job.objects.all()
Job_objects_all(db) == DOMAIN db

QuerySet(rows) == [exc |-> "None", msg |-> None, rows |-> rows]

RaiseValueError(msg) == [exc |-> "ValueError", msg |-> msg, rows |-> {}]

JobListView_test_func(user) ==
    user.is_agent \/ user.is_superuser \/ user.is_marnie

\* a queryset that lists only the superuser's own jobs
JobListView_get_queryset_superuser_own(user, agent_username, table, db) ==
    IF user.is_marnie THEN
        IF agent_username \in {None, ""}
        THEN RaiseValueError("Agent username parameter is missing")
        ELSE LET got == User_objects_get(table, agent_username)
             IN  IF got.exc = "DoesNotExist"
                 THEN RaiseValueError("Agent username not found")
                 ELSE QuerySet(Job_objects_filter(db, got.user))
    ELSE IF user.is_agent \/ user.is_superuser
    THEN QuerySet(Job_objects_filter(db, user))
    ELSE RaiseValueError("Unknown user type")

\* a queryset that looks at is_superuser before is_agent
JobListView_get_queryset_superuser_first(user, agent_username, table, db) ==
    IF user.is_marnie THEN
        IF agent_username \in {None, ""}
        THEN RaiseValueError("Agent username parameter is missing")
        ELSE LET got == User_objects_get(table, agent_username)
             IN  IF got.exc = "DoesNotExist"
                 THEN RaiseValueError("Agent username not found")
                 ELSE QuerySet(Job_objects_filter(db, got.user))
    ELSE IF user.is_superuser THEN
        IF agent_username \in {None, ""} THEN QuerySet(Job_objects_all(db))
        ELSE LET got == User_objects_get(table, agent_username)
             IN  IF got.exc = "DoesNotExist"
                 THEN RaiseValueError("Agent username not found")
                 ELSE QuerySet(Job_objects_filter(db, got.user))
    ELSE IF user.is_agent THEN QuerySet(Job_objects_filter(db, user))
    ELSE RaiseValueError("Unknown user type")

JobListView_get_queryset(user, agent_username, table, db) ==
    IF user.is_marnie THEN
        IF agent_username \in {None, ""}
        THEN RaiseValueError("Agent username parameter is missing")
        ELSE LET got == User_objects_get(table, agent_username)
             IN  IF got.exc = "DoesNotExist"
                 THEN RaiseValueError("Agent username not found")
                 ELSE QuerySet(Job_objects_filter(db, got.user))
    ELSE IF user.is_agent THEN QuerySet(Job_objects_filter(db, user))
    ELSE IF user.is_superuser THEN
        IF agent_username \in {None, ""} THEN QuerySet(Job_objects_all(db))
        ELSE LET got == User_objects_get(table, agent_username)
             IN  IF got.exc = "DoesNotExist"
                 THEN RaiseValueError("Agent username not found")
                 ELSE QuerySet(Job_objects_filter(db, got.user))
    ELSE RaiseValueError("Unknown user type")

\* GET: the agent parameter; data: the posted form; content: the body of
\* an error response; object_list: the jobs of the page; raised: the
\* exception that left the view; emails, messages: what the request sent
\* and flashed
HttpResponse(view, method, user, status_code) ==
    [view |-> view, method |-> method, user |-> user, status_code |-> status_code,
     GET |-> None, data |-> [valid |-> FALSE, agent |-> None],
     content |-> None, object_list |-> {}, location |-> None, raised |-> None,
     saved |-> FALSE, emails |-> <<>>, messages |-> <<>>]

\* a dispatch that lets the ValueError of get_queryset through
JobListView_dispatch_uncaught(user, agent_username, table, db) ==
    LET r == HttpResponse("job_list", "GET", user, HTTP_200_OK)
        q == JobListView_get_queryset(user, agent_username, table, db)
    IN  IF ~user.is_authenticated
        THEN [r EXCEPT !.status_code = HTTP_302_FOUND, !.location = "login"]
        ELSE IF ~JobListView_test_func(user)
        THEN [r EXCEPT !.status_code = HTTP_403_FORBIDDEN]
        ELSE IF q.exc = "ValueError"
        THEN [r EXCEPT !.status_code = HTTP_500_INTERNAL_SERVER_ERROR,
                       !.raised = "ValueError"]
        ELSE [r EXCEPT !.object_list = q.rows]

\* login and test_func come first (the mixins), then the list; a
\* ValueError on the way becomes a bad request with the error's message
JobListView_dispatch(user, agent_username, table, db) ==
    LET r == HttpResponse("job_list", "GET", user, HTTP_200_OK)
        q == JobListView_get_queryset(user, agent_username, table, db)
    IN  IF ~user.is_authenticated
        THEN [r EXCEPT !.status_code = HTTP_302_FOUND, !.location = "login"]
        ELSE IF ~JobListView_test_func(user)
        THEN [r EXCEPT !.status_code = HTTP_403_FORBIDDEN]
        ELSE IF q.exc = "ValueError"
        THEN [r EXCEPT !.status_code = HTTP_400_BAD_REQUEST, !.content = q.msg]
        ELSE [r EXCEPT !.object_list = q.rows]

\* GET /jobs/?agent=<username>
JobListView_get(user, agent_username) ==
    /\ resp' = [JobListView_dispatch(user, agent_username, users, jobs)
                   EXCEPT !.GET = agent_username]
    /\ UNCHANGED <<jobs, chk, procs, users>>

JobCreateView_test_func(user) == user.is_agent \/ user.is_superuser

\* the Marnie row's address, or MarnieUserNotFoundError when there is none
get_marnie_email(table) ==
    LET found == {u \in table : u.is_marnie}
    IN  IF found = {} THEN [exc |-> "MarnieUserNotFoundError", email |-> None]
        ELSE [exc |-> "None", email |-> (CHOOSE u \in found : TRUE).id]

\* the posted form: whether the four fields validate, and an extra "agent"
\* key a client may add (the form has no such field)
CreateData ==
    {[valid |-> TRUE, agent |-> None], [valid |-> TRUE, agent |-> "bob"],
     [valid |-> TRUE, agent |-> "peter"], [valid |-> FALSE, agent |-> None]}

EmailMessage(to, cc) == [to |-> <<to>>, cc |-> <<cc>>]

\* the address of the system administrator
get_sysadmin_email == "sysadmin"

\* the message's lines, the last one ending with the administrator's address
MarnieNotFoundFlash ==
    [level |-> "error",
     message |-> <<"No Marnie user found.",
                   "Unable to send maintenance request.",
                   "Please contact the system administrator at ",
                   get_sysadmin_email>>]

RequestSentFlash ==
    [level |-> "success",
     message |-> <<"Your maintenance request has been sent to Marnie.">>]

\* a form_valid that takes the job's agent from the posted data
JobCreateView_form_valid_agent_from_data(user, data, table, db) ==
    LET r == [HttpResponse("job_create", "POST", user, HTTP_302_FOUND)
                 EXCEPT !.data = data]
        raise == [response |-> [r EXCEPT !.status_code = HTTP_500_INTERNAL_SERVER_ERROR,
                                         !.raised = "ValueError"],
                  jobs |-> db]
        agent == IF data.agent = None THEN user.id ELSE data.agent
        saved == [r EXCEPT !.saved = TRUE, !.location = "job_list"]
        to == get_marnie_email(table)
    IN  IF ~user.is_authenticated THEN raise
        ELSE IF ~user.is_agent THEN raise
        ELSE IF to.exc = "MarnieUserNotFoundError"
        THEN [response |-> [saved EXCEPT !.messages = <<MarnieNotFoundFlash>>],
              jobs |-> Append(db, NewJob(agent))]
        ELSE [response |-> [saved EXCEPT !.emails = <<EmailMessage(to.email, user.id)>>,
                                         !.messages = <<RequestSentFlash>>],
              jobs |-> Append(db, NewJob(agent))]

\* a form_valid that looks up Marnie before it saves and lets the lookup's
\* error through
JobCreateView_form_valid_lookup_first(user, data, table, db) ==
    LET r == [HttpResponse("job_create", "POST", user, HTTP_302_FOUND)
                 EXCEPT !.data = data]
        raise(exc) == [response |-> [r EXCEPT !.status_code = HTTP_500_INTERNAL_SERVER_ERROR,
                                              !.raised = exc],
                       jobs |-> db]
        saved == [r EXCEPT !.saved = TRUE, !.location = "job_list"]
        to == get_marnie_email(table)
    IN  IF ~user.is_authenticated THEN raise("ValueError")
        ELSE IF ~user.is_agent THEN raise("ValueError")
        ELSE IF to.exc = "MarnieUserNotFoundError" THEN raise(to.exc)
        ELSE [response |-> [saved EXCEPT !.emails = <<EmailMessage(to.email, user.id)>>,
                                         !.messages = <<RequestSentFlash>>],
              jobs |-> Append(db, NewJob(user.id))]

\* the checks of form_valid, the save with the submitter as agent, then the
\* notification: the result is the response and the job table
JobCreateView_form_valid(user, data, table, db) ==
    LET r == [HttpResponse("job_create", "POST", user, HTTP_302_FOUND)
                 EXCEPT !.data = data]
        raise == [response |-> [r EXCEPT !.status_code = HTTP_500_INTERNAL_SERVER_ERROR,
                                         !.raised = "ValueError"],
                  jobs |-> db]
        saved == [r EXCEPT !.saved = TRUE, !.location = "job_list"]
        to == get_marnie_email(table)
    IN  IF ~user.is_authenticated THEN raise
        ELSE IF ~user.is_agent THEN raise
        ELSE IF to.exc = "MarnieUserNotFoundError"
        THEN [response |-> [saved EXCEPT !.messages = <<MarnieNotFoundFlash>>],
              jobs |-> Append(db, NewJob(user.id))]
        ELSE [response |-> [saved EXCEPT !.emails = <<EmailMessage(to.email, user.id)>>,
                                         !.messages = <<RequestSentFlash>>],
              jobs |-> Append(db, NewJob(user.id))]

\* POST /jobs/create/: login and test_func first (the mixins), an invalid
\* form is shown again, a valid one goes to form_valid
JobCreateView_post(user, data) ==
    /\ Len(jobs) < MaxJobs
    /\ LET r == [HttpResponse("job_create", "POST", user, HTTP_200_OK)
                    EXCEPT !.data = data]
           done == JobCreateView_form_valid(user, data, users, jobs)
       IN  IF ~user.is_authenticated
           THEN /\ resp' = [r EXCEPT !.status_code = HTTP_302_FOUND,
                                     !.location = "login"]
                /\ UNCHANGED jobs
           ELSE IF ~JobCreateView_test_func(user)
           THEN /\ resp' = [r EXCEPT !.status_code = HTTP_403_FORBIDDEN]
                /\ UNCHANGED jobs
           ELSE IF ~data.valid
           THEN /\ resp' = r
                /\ UNCHANGED jobs
           ELSE /\ resp' = done.response
                /\ jobs' = done.jobs
    /\ UNCHANGED <<chk, procs, users>>

AgentWithoutMarnie == "An Agent user can only exist if Marnie exists."

\* a validation that accepts an agent whatever the user table holds
User_clean_errors_unchecked(user, table) == {}

\* the errors of User.clean(): an agent needs a Marnie row
User_clean_errors(user, table) ==
    IF user.is_agent /\ ~\E m \in table : m.is_marnie
    THEN {AgentWithoutMarnie}
    ELSE {}

\* User.objects.create_user(...): the row is stored unvalidated. Usernames
\* are unique, and the table holds one Marnie at most.
User_objects_create_user(user) ==
    /\ resp = NoResponse
    /\ \A u \in users : u.id # user.id
    /\ user.is_marnie => \A u \in users : ~u.is_marnie
    /\ users' = users \cup {user}
    /\ UNCHANGED <<jobs, chk, procs, resp>>

\* user.full_clean() on a stored row
User_full_clean(user) ==
    /\ resp' = [view |-> "full_clean", user |-> user,
                errors |-> User_clean_errors(user, users)]
    /\ UNCHANGED <<jobs, chk, procs, users>>

\* the response is delivered; the next requests see the tables as they are
SendResponse ==
    /\ resp # NoResponse
    /\ resp' = NoResponse
    /\ UNCHANGED <<jobs, chk, procs, users>>

SiteNext ==
    \/ \E user \in UserRows : User_objects_create_user(user)
    \/ \E user \in users : User_full_clean(user)
    \/ \E user \in users \cup {AnonymousUser}, agent_username \in AgentParams :
          JobListView_get(user, agent_username)
    \/ \E user \in users \cup {AnonymousUser}, data \in CreateData :
          JobCreateView_post(user, data)
    \/ SendResponse

SiteSpec == Init /\ [][SiteNext]_vars

MarnieExists == \E m \in users : m.is_marnie

ListedBy(r) == r.view = "job_list" /\ r.user.is_authenticated

\* the parameter names a username no user has
NamesNobody(agent_username) ==
    /\ agent_username \notin {None, ""}
    /\ \A u \in users : u.id # agent_username

\* C25: the job list of an agent who is not Marnie is answered 200 with
\* exactly the jobs whose agent is that user, whatever "agent" parameter the
\* request carries and whether or not the agent is also a superuser; it
\* never holds a job of another agent.
C25_AgentListsOwnJobs ==
    (ListedBy(resp) /\ resp.user.is_agent /\ ~resp.user.is_marnie) =>
        /\ resp.status_code = HTTP_200_OK
        /\ resp.object_list = {i \in DOMAIN jobs : jobs[i].agent = resp.user.id}

C25_Witness ==
    /\ ListedBy(resp)
    /\ resp.user.is_agent /\ ~resp.user.is_marnie /\ resp.user.is_superuser
    /\ resp.GET \notin {None, "", resp.user.id}
    /\ \E i \in DOMAIN jobs : jobs[i].agent = resp.GET
    /\ resp.object_list # {}
    /\ \A i \in resp.object_list : jobs[i].agent = resp.user.id

\* C26, as stated: the job list of any superuser who sends no "agent"
\* parameter holds all jobs, whatever other role flags the superuser has.
C26_AnySuperuserListsAllJobs ==
    (ListedBy(resp) /\ resp.user.is_superuser /\ resp.GET = None) =>
        /\ resp.status_code = HTTP_200_OK
        /\ resp.object_list = DOMAIN jobs

\* C26, amended: the job list of a superuser who is neither Marnie nor an
\* agent and sends no "agent" parameter holds all jobs.
C26_PlainSuperuserListsAllJobs ==
    (/\ ListedBy(resp)
     /\ resp.user.is_superuser /\ ~resp.user.is_marnie /\ ~resp.user.is_agent
     /\ resp.GET = None) =>
        /\ resp.status_code = HTTP_200_OK
        /\ resp.object_list = DOMAIN jobs

C26_Witness ==
    /\ ListedBy(resp)
    /\ resp.user.is_superuser /\ ~resp.user.is_marnie /\ ~resp.user.is_agent
    /\ resp.GET = None
    /\ Len(jobs) = MaxJobs
    /\ resp.object_list = DOMAIN jobs

\* the response is a bad request with this message, without a job list
\* and without an error leaving dispatch
BadRequest(r, msg) ==
    /\ r.status_code = HTTP_400_BAD_REQUEST
    /\ r.content = msg
    /\ r.object_list = {}
    /\ r.raised = None

\* C27, as stated: Marnie's request without an "agent" parameter, or with
\* an empty one, is a bad request "Agent username parameter is missing";
\* a request of Marnie or of a superuser that names a username no user has
\* is a bad request "Agent username not found".
C27_BadAgentParameterIsBadRequest ==
    /\ (ListedBy(resp) /\ resp.user.is_marnie /\ resp.GET \in {None, ""}) =>
           BadRequest(resp, "Agent username parameter is missing")
    /\ (/\ ListedBy(resp)
        /\ resp.user.is_marnie \/ resp.user.is_superuser
        /\ NamesNobody(resp.GET)) =>
           BadRequest(resp, "Agent username not found")

\* C27, amended: as stated, where the superuser is Marnie too or is not an
\* agent.
C27_BadAgentParameterIsBadRequestUnlessAgent ==
    /\ (ListedBy(resp) /\ resp.user.is_marnie /\ resp.GET \in {None, ""}) =>
           BadRequest(resp, "Agent username parameter is missing")
    /\ (/\ ListedBy(resp)
        /\ \/ resp.user.is_marnie
           \/ resp.user.is_superuser /\ ~resp.user.is_agent
        /\ NamesNobody(resp.GET)) =>
           BadRequest(resp, "Agent username not found")

C27_Witness ==
    /\ ListedBy(resp)
    /\ resp.user.is_superuser /\ ~resp.user.is_agent /\ ~resp.user.is_marnie
    /\ NamesNobody(resp.GET)
    /\ jobs # <<>>
    /\ BadRequest(resp, "Agent username not found")

\* the step is a POST to the job form answered with resp'
CreateStep ==
    /\ resp'.view = "job_create"
    /\ resp' # resp \/ jobs' # jobs

\* the step appends one job, whose agent is the submitter of resp'
SavesForSubmitter ==
    /\ Len(jobs') = Len(jobs) + 1
    /\ SubSeq(jobs', 1, Len(jobs)) = jobs
    /\ jobs'[Len(jobs')] = NewJob(resp'.user.id)

\* C28: whenever the job table changes, the step is a POST to the job form
\* by a logged-in agent that appends one job whose agent is that very
\* user, whatever "agent" the posted data names; a POST of an
\* unauthenticated user or of a user who is not an agent leaves the job
\* table as it was.
C28_SavedJobBelongsToSubmitter ==
    [][/\ jobs' # jobs =>
             /\ CreateStep
             /\ resp'.user \in users
             /\ resp'.user.is_authenticated /\ resp'.user.is_agent
             /\ SavesForSubmitter
       /\ (CreateStep /\ (~resp'.user.is_authenticated \/ ~resp'.user.is_agent)) =>
             jobs' = jobs]_vars

C28_Witness ==
    /\ resp.view = "job_create" /\ resp.saved
    /\ resp.data.agent \notin {None, resp.user.id}
    /\ \E u \in users : u.id = resp.data.agent /\ u.is_agent
    /\ jobs[Len(jobs)].agent = resp.user.id

\* C29: a POST of a valid form by a logged-in agent always saves the job
\* and is answered with the redirect to the job list, no error raised.
\* Without a Marnie user no email is sent and the one flash message is the
\* error; with a Marnie user exactly one email goes to Marnie, cc the
\* submitter, and the one flash message is the success.
C29_JobSavedWhateverTheNotification ==
    [][(/\ CreateStep
        /\ resp'.user.is_authenticated /\ resp'.user.is_agent
        /\ resp'.data.valid) =>
          /\ SavesForSubmitter
          /\ resp'.status_code = HTTP_302_FOUND
          /\ resp'.location = "job_list"
          /\ resp'.raised = None
          /\ IF MarnieExists
             THEN /\ Len(resp'.emails) = 1
                  /\ \E m \in users :
                        /\ m.is_marnie
                        /\ resp'.emails[1] = EmailMessage(m.id, resp'.user.id)
                  /\ resp'.messages = <<RequestSentFlash>>
             ELSE /\ resp'.emails = <<>>
                  /\ resp'.messages = <<MarnieNotFoundFlash>>]_vars

C29_Witness ==
    /\ resp.view = "job_create" /\ resp.saved
    /\ ~MarnieExists
    /\ resp.emails = <<>>
    /\ resp.messages = <<MarnieNotFoundFlash>>
    /\ resp.status_code = HTTP_302_FOUND
    /\ jobs # <<>>

\* C30: a POST of a valid form by a logged-in user whom test_func admits
\* (an agent or a superuser) saves the job and is answered with the
\* redirect to the job list; nothing is raised in form_valid.
C30_AdmittedUserCreatesJob ==
    (/\ resp.view = "job_create"
     /\ resp.user.is_authenticated
     /\ JobCreateView_test_func(resp.user)
     /\ resp.data.valid) =>
        /\ resp.saved
        /\ resp.status_code = HTTP_302_FOUND
        /\ resp.location = "job_list"
        /\ resp.raised = None

====
